---------------------------- MODULE Spec2Model ----------------------------
(***************************************************************************)
(* Model of preprocessing/automate_Aldy-Naufal.py: the paged search        *)
(* (youtube_search), the chunked details fetch (youtube_get_videos_stats), *)
(* keyword genre detection (detect_genres_from_text,                       *)
(* add_primary_genre_column), the frequency filter (clean_for_modelling)   *)
(* and the sequential run_pipeline that calls them and writes three CSVs.  *)
(*                                                                         *)
(* Text is a sequence of one-character strings, so that lower-casing,      *)
(* joining and substring search are computed and not assumed.              *)
(***************************************************************************)
EXTENDS Integers, Sequences, FiniteSets, TLC

\* ------------------------------------------------------------------ bounds
\* Video identifiers the endpoints know: 1..NumIds.
NumIds == 3
\* Stands for the literal 50 of `min(50, max_results - fetched)` (line 113).
SearchPageSize == 2
\* Largest max_results handed straight to youtube_search.
MaxResults == 3
\* Stands for the max_results=200 run_pipeline passes (line 300).
RunMaxResults == 2
\* Stands for the literal 50 of `range(0, len(video_ids), 50)` (line 155).
ChunkSize == 2
\* Longest identifier list handed straight to youtube_get_videos_stats.
MaxStatIds == 5
\* Number of entries of QUERIES that are run (the source lists 4, line 288).
NumQueries == 2
\* Rows of a table handed straight to add_primary_genre_column.
MaxRows == 2
\* Rows of a table handed straight to clean_for_modelling.
MaxCleanRows == 4
\* Largest min_samples handed straight to clean_for_modelling.
MaxMinSamples == 3

\* ------------------------------------------------------- program constants
\* min_samples=20 in run_pipeline's call of clean_for_modelling.
MinSamples == 20

Ids == 1..NumIds

\* Python's None for a text field: a sequence no text equals.
None == <<"<None>">>
\* Python's None for primary_genre and for next_page_token.
NoGenre == "<None>"
NoToken == "<None>"
\* Page tokens the search endpoint hands out.
Tokens == {"T1", "T2"}

\* ------------------------------------------------------------ text helpers
Min(a, b) == IF a < b THEN a ELSE b

Range(s) == {s[k] : k \in DOMAIN s}

\* The cased letters and their lower-case forms.
LowerOf ==
  [c \in {"A","B","C","D","E","F","G","H","I","J","K","L","M",
          "N","O","P","Q","R","S","T","U","V","W","X","Y","Z"} |->
     CASE c = "A" -> "a" [] c = "B" -> "b" [] c = "C" -> "c" [] c = "D" -> "d"
       [] c = "E" -> "e" [] c = "F" -> "f" [] c = "G" -> "g" [] c = "H" -> "h"
       [] c = "I" -> "i" [] c = "J" -> "j" [] c = "K" -> "k" [] c = "L" -> "l"
       [] c = "M" -> "m" [] c = "N" -> "n" [] c = "O" -> "o" [] c = "P" -> "p"
       [] c = "Q" -> "q" [] c = "R" -> "r" [] c = "S" -> "s" [] c = "T" -> "t"
       [] c = "U" -> "u" [] c = "V" -> "v" [] c = "W" -> "w" [] c = "X" -> "x"
       [] c = "Y" -> "y" [] c = "Z" -> "z"]

\* str.lower() on one character.
LowerChar(c) == IF c \in DOMAIN LowerOf THEN LowerOf[c] ELSE c

\* A mutant of LowerStr: the text is matched as written.
LowerStrKeepCase(s) == s

\* str.lower()
RECURSIVE LowerStr(_)
LowerStr(s) ==
  IF s = <<>> THEN <<>> ELSE <<LowerChar(Head(s))>> \o LowerStr(Tail(s))

\* sep.join(parts)
RECURSIVE Join(_, _)
Join(parts, sep) ==
  IF parts = <<>> THEN <<>>
  ELSE IF Len(parts) = 1 THEN parts[1]
  ELSE parts[1] \o sep \o Join(Tail(parts), sep)

\* `kw in text` on str: kw occurs at some offset of text.
Contains(kw, text) ==
  \E o \in 0..(Len(text) - Len(kw)) :
    \A j \in 1..Len(kw) : text[o + j] = kw[j]

\* Truth value of a text field: None and "" are falsy.
Truthy(v) == v # None /\ v # <<>>

\* ----------------------------------------------------------- genre table
GENRE_KEYWORDS ==
  <<
    [genre |-> "MOBA", keywords |-> <<
        <<"m","o","b","i","l","e"," ","l","e","g","e","n","d","s">>,
        <<"m","l","b","b">>,
        <<"a","r","e","n","a"," ","o","f"," ","v","a","l","o","r">>,
        <<"a","o","v">>,
        <<"l","e","a","g","u","e"," ","o","f"," ","l","e","g","e","n","d","s">>,
        <<"l","o","l"," ","p","c">>,
        <<"w","i","l","d"," ","r","i","f","t">>,
        <<"d","o","t","a"," ","2">>,
        <<"m","l">>,
        <<"d","o","t","a">>
      >>],
    [genre |-> "FPS", keywords |-> <<
        <<"v","a","l","o","r","a","n","t">>,
        <<"c","s","g","o">>,
        <<"c","o","u","n","t","e","r"," ","s","t","r","i","k","e">>,
        <<"c","s","2">>,
        <<"c","a","l","l"," ","o","f"," ","d","u","t","y">>,
        <<"c","o","d","m">>,
        <<"a","p","e","x"," ","l","e","g","e","n","d","s">>,
        <<"o","v","e","r","w","a","t","c","h">>,
        <<"v","a","l","o">>,
        <<"d","e","l","t","a"," ","f","o","r","c","e">>
      >>],
    [genre |-> "Battle Royale", keywords |-> <<
        <<"p","u","b","g">>,
        <<"p","u","b","g"," ","m","o","b","i","l","e">>,
        <<"f","r","e","e"," ","f","i","r","e">>,
        <<"f","f">>,
        <<"f","o","r","t","n","i","t","e">>,
        <<"w","a","r","z","o","n","e">>
      >>],
    [genre |-> "RPG", keywords |-> <<
        <<"g","e","n","s","h","i","n"," ","i","m","p","a","c","t">>,
        <<"h","o","n","k","a","i"," ","s","t","a","r"," ","r","a","i","l">>,
        <<"s","t","a","r"," ","r","a","i","l">>,
        <<"z","e","n","l","e","s","s"," ","z","o","n","e"," ","z","e","r","o">>,
        <<"z","z","z">>,
        <<"e","l","d","e","n"," ","r","i","n","g">>,
        <<"f","i","n","a","l"," ","f","a","n","t","a","s","y">>,
        <<"p","e","r","s","o","n","a">>,
        <<"r","p","g">>
      >>],
    [genre |-> "Horror", keywords |-> <<
        <<"o","u","t","l","a","s","t">>,
        <<"a","m","n","e","s","i","a">>,
        <<"p","h","a","s","m","o","p","h","o","b","i","a">>,
        <<"p","o","p","p","y"," ","p","l","a","y","t","i","m","e">>,
        <<"f","n","a","f">>,
        <<"f","i","v","e"," ","n","i","g","h","t","s"," ","a","t"," ","f","r","e","d","d","y">>,
        <<"h","o","r","r","o","r"," ","g","a","m","e">>,
        <<"g","a","m","e"," ","h","o","r","r","o","r">>
      >>],
    [genre |-> "Sandbox", keywords |-> <<
        <<"m","i","n","e","c","r","a","f","t">>,
        <<"r","o","b","l","o","x">>,
        <<"t","e","r","r","a","r","i","a">>,
        <<"s","a","n","d","b","o","x">>
      >>],
    [genre |-> "Sports", keywords |-> <<
        <<"f","i","f","a">>,
        <<"e","a"," ","f","c">>,
        <<"p","e","s">>,
        <<"e","f","o","o","t","b","a","l","l">>,
        <<"n","b","a"," ","2","k">>,
        <<"f","o","o","t","b","a","l","l"," ","m","a","n","a","g","e","r">>
      >>],
    [genre |-> "Racing", keywords |-> <<
        <<"f","o","r","z","a">>,
        <<"g","r","a","n"," ","t","u","r","i","s","m","o">>,
        <<"n","e","e","d"," ","f","o","r"," ","s","p","e","e","d">>,
        <<"n","f","s">>,
        <<"f","1"," ","2","3">>,
        <<"f","1"," ","2","4">>,
        <<"a","s","s","e","t","t","o"," ","c","o","r","s","a">>
      >>],
    [genre |-> "Strategy", keywords |-> <<
        <<"a","g","e"," ","o","f"," ","e","m","p","i","r","e","s">>,
        <<"c","i","v","i","l","i","z","a","t","i","o","n">>,
        <<"c","l","a","s","h"," ","o","f"," ","c","l","a","n","s">>,
        <<"c","o","c">>,
        <<"c","l","a","s","h"," ","r","o","y","a","l","e">>,
        <<"s","t","r","a","t","e","g","y"," ","g","a","m","e">>
      >>],
    [genre |-> "Casual/Party", keywords |-> <<
        <<"s","t","u","m","b","l","e"," ","g","u","y","s">>,
        <<"f","a","l","l"," ","g","u","y","s">>,
        <<"p","a","r","t","y"," ","g","a","m","e">>,
        <<"j","a","c","k","b","o","x">>
      >>],
    [genre |-> "Simulation", keywords |-> <<
        <<"b","u","s"," ","s","i","m","u","l","a","t","o","r">>,
        <<"t","r","u","c","k"," ","s","i","m","u","l","a","t","o","r">>,
        <<"e","t","s","2">>,
        <<"e","u","r","o"," ","t","r","u","c","k">>,
        <<"s","i","m","u","l","a","t","o","r">>,
        <<"d","r","i","v","i","n","g"," ","s","i","m","u","l","a","t","o","r">>,
        <<"f","a","r","m","i","n","g"," ","s","i","m","u","l","a","t","o","r">>,
        <<"t","r","a","i","n"," ","s","i","m","u","l","a","t","o","r">>,
        <<"f","l","i","g","h","t"," ","s","i","m","u","l","a","t","o","r">>
      >>]
  >>

Genres == [g \in DOMAIN GENRE_KEYWORDS |-> GENRE_KEYWORDS[g].genre]

\* Position of a genre in the declaration order of GENRE_KEYWORDS.
GenreIndex(name) == CHOOSE g \in DOMAIN Genres : Genres[g] = name

\* ------------------------------------------------- detect_genres_from_text
\* parts: the truthy ones of title, description, tags, in that order.
Parts(title, description, tags) ==
  (IF Truthy(title) THEN <<title>> ELSE <<>>)
    \o (IF Truthy(description) THEN <<description>> ELSE <<>>)
    \o (IF Truthy(tags) THEN <<tags>> ELSE <<>>)

\* text = " ".join(parts).lower()
TextOf(title, description, tags) ==
  LowerStr(Join(Parts(title, description, tags), <<" ">>))

\* found_genres after the loop over GENRE_KEYWORDS.items(): a set.
FoundGenres(text) ==
  {GENRE_KEYWORDS[g].genre : g \in
     {h \in DOMAIN GENRE_KEYWORDS :
        \E k \in DOMAIN GENRE_KEYWORDS[h].keywords :
          Contains(LowerStr(GENRE_KEYWORDS[h].keywords[k]), text)}}

\* All orders in which a set can be listed.
Perms(S) ==
  {p \in [1..Cardinality(S) -> S] : \A a, b \in DOMAIN p : p[a] = p[b] => a = b}

\* list(found_genres): a set of str iterates in hash order, which the
\* interpreter's per-process hash seed fixes; `known` holds the orders this
\* process has already shown, and the same set lists the same way again.
ListOfSet(S, known) ==
  IF \E o \in known : Range(o) = S
  THEN {o \in known : Range(o) = S}
  ELSE Perms(S)

\* ----------------------------------------------------- clean_for_modelling
\* df.dropna(subset=["primary_genre"])
DropNa(df) ==
  LET present(r) == r.primary_genre # NoGenre
  IN SelectSeq(df, present)

\* df["primary_genre"].value_counts()[g]
RECURSIVE CountGenre(_, _)
CountGenre(df, g) ==
  IF df = <<>> THEN 0
  ELSE (IF Head(df).primary_genre = g THEN 1 ELSE 0) + CountGenre(Tail(df), g)

\* A mutant of MeetsMinSamples: a strict comparison.
MeetsMinSamplesStrict(count, m) == count > m

\* genre_counts >= min_samples
MeetsMinSamples(count, m) == count >= m

\* genre_counts[genre_counts >= min_samples].index.tolist(), as a set.
ValidGenres(df, m) ==
  {g \in {df[k].primary_genre : k \in DOMAIN df} :
     MeetsMinSamples(CountGenre(df, g), m)}

\* combine_text: the str ones of title, description, tags joined by " ".
CombineText(row) ==
  LET isStr(v) == v # None
  IN Join(SelectSeq(<<row.title, row.description, row.tags>>, isStr), <<" ">>)

\* The table clean_for_modelling returns.
CleanForModelling(df, m) ==
  LET d == DropNa(df)
      valid == ValidGenres(d, m)
      kept(r) == r.primary_genre \in valid
      f == SelectSeq(d, kept)
  IN [k \in DOMAIN f |-> [text |-> CombineText(f[k])] @@ f[k]]

\* ------------------------------------------------------------ identifiers
\* list(dict.fromkeys(ids)): first occurrences, in order.
RECURSIVE Dedup(_)
Dedup(ids) ==
  IF ids = <<>> THEN <<>>
  ELSE LET front == Dedup(SubSeq(ids, 1, Len(ids) - 1))
           last == ids[Len(ids)]
       IN IF last \in Range(front) THEN front ELSE Append(front, last)

\* A mutant of UniqueIds: the list is fetched as collected.
UniqueIdsKeepAll(ids) == ids

\* all_video_ids = list(dict.fromkeys(all_video_ids)) in run_pipeline.
UniqueIds(ids) == Dedup(ids)

\* A mutant of SearchResult: the identifiers are returned as appended.
SearchResultRaw(ids) == ids

\* return list(dict.fromkeys(video_ids)) in youtube_search.
SearchResult(ids) == Dedup(ids)

\* A mutant of Raises: the status of the response is not looked at.
RaisesNever(resp) == FALSE

\* resp.raise_for_status(): raises on a non-success response.
Raises(resp) == ~resp.ok

\* A mutant of NoVideos: the early return is missing.
NoVideosNever(ids) == FALSE

\* `if not all_video_ids: return` in run_pipeline.
NoVideos(ids) == ids = <<>>

\* A mutant of NextFetched: fetched is not advanced.
NextFetchedStuck(fetched_now, items) == fetched_now

\* fetched += len(items)
NextFetched(fetched_now, items) == fetched_now + Len(items)

\* A mutant of ChunkOf: the slice takes one identifier too few.
ChunkOfShort(ids, start) == SubSeq(ids, start + 1, Min(start + ChunkSize, Len(ids)) - 1)

\* video_ids[i:i+50]
ChunkOf(ids, start) == SubSeq(ids, start + 1, Min(start + ChunkSize, Len(ids)))

\* ------------------------------------------------------------- endpoints
\* The search strings of run_pipeline.
QUERIES ==
  <<"game indonesia", "gaming indonesia", "mobile game indonesia", "pc game indonesia">>

\* What the search endpoint may answer to a request for `asked` items: an
\* error, or a page of at most `asked` identifiers (the endpoint honours
\* maxResults) with or without a next-page token.
SearchResponses(asked) ==
  {[ok |-> FALSE, items |-> <<>>, token |-> NoToken]}
    \cup {[ok |-> TRUE, items |-> it, token |-> t] :
            it \in UNION {[1..n -> Ids] : n \in 0..asked},
            t \in Tokens \cup {NoToken}}

\* What the videos endpoint knows about an identifier: title, description
\* and tag list of the item's snippet.
CatalogueTitles ==
  << <<"V","a","l","o"," ","M","L">>, None, <<"h","i">> >>
CatalogueDescriptions ==
  << <<"e","a">>, <<"f","f">> >>
CatalogueTags ==
  << << <<"f","c">>, <<"r","p","g">> >>, <<>> >>

Pick(seq, id) == seq[((id - 1) % Len(seq)) + 1]

Item(id) ==
  [id |-> id,
   snippet |-> [title |-> Pick(CatalogueTitles, id),
                description |-> Pick(CatalogueDescriptions, id),
                tags |-> Pick(CatalogueTags, id)]]

\* The record youtube_get_videos_stats builds from an item.
Record(item) ==
  [video_id |-> item.id,
   title |-> item.snippet.title,
   description |-> item.snippet.description,
   tags |-> Join(item.snippet.tags, <<"|">>)]

\* Subsequences of a chunk: the items the videos endpoint returns for it.
Returned(chunk) ==
  {LET keep(id_pos) == id_pos \in K
       pos == SelectSeq([k \in DOMAIN chunk |-> k], keep)
   IN [k \in DOMAIN pos |-> chunk[pos[k]]] : K \in SUBSET (DOMAIN chunk)}

\* What the videos endpoint may answer to a request for `chunk`.
DetailsResponses(chunk) ==
  {[ok |-> FALSE, items |-> <<>>]}
    \cup {[ok |-> TRUE, items |-> [k \in DOMAIN got |-> Item(got[k])]] :
            got \in Returned(chunk)}

\* ------------------------------------------------------------------ state
VARIABLES
  pc,               \* where the run is
  http_failed,      \* some request of the run got a non-success response
  qi,               \* run_pipeline: index into QUERIES of the query being run
  all_video_ids,    \* run_pipeline: identifiers collected over the queries
  written,          \* run_pipeline: the CSV files written in this run
  max_results,      \* youtube_search: parameter
  video_ids,        \* youtube_search: identifiers appended so far
  next_page_token,  \* youtube_search
  fetched,          \* youtube_search
  last_len,         \* youtube_search: len(items) of the last response
  vids,             \* youtube_search: the list returned
  stat_ids,         \* youtube_get_videos_stats: parameter video_ids
  i,                \* youtube_get_videos_stats: offset of the next chunk
  records,          \* youtube_get_videos_stats
  requests,         \* youtube_get_videos_stats: the chunks requested so far
  df_videos,        \* the Video Record table
  genres_all,       \* add_primary_genre_column
  primary,          \* add_primary_genre_column
  hash_orders,      \* the orders in which this process has listed str sets
  df_with_genre,    \* the tagged table
  min_samples,      \* clean_for_modelling: parameter
  df_clean          \* the table clean_for_modelling returned

runVars == <<qi, all_video_ids, written>>
searchVars ==
  <<max_results, video_ids, next_page_token, fetched, last_len, vids>>
statsVars == <<stat_ids, i, records, requests>>
genreVars == <<genres_all, primary, hash_orders>>
cleanVars == <<min_samples, df_clean>>
vars ==
  <<pc, http_failed, runVars, searchVars, statsVars, df_videos, genreVars,
    df_with_genre, cleanVars>>

\* ---------------------------------------------------------- youtube_search
\* `while fetched < max_results`, and the break on a missing token.
SearchLoopPc(fetched_now, token, limit) ==
  IF token # NoToken /\ fetched_now < limit THEN "search_loop" ELSE "search_ret"

\* One iteration of the paging loop: the request, raise_for_status, the
\* items appended, fetched and the token updated.
SearchPage ==
  /\ pc = "search_loop"
  /\ LET to_fetch == Min(SearchPageSize, max_results - fetched)
     IN \E resp \in SearchResponses(to_fetch) :
          /\ http_failed' = (http_failed \/ ~resp.ok)
          /\ IF Raises(resp)
             THEN /\ pc' = "failed"
                  /\ UNCHANGED searchVars
             ELSE /\ video_ids' = video_ids \o resp.items
                  /\ fetched' = NextFetched(fetched, resp.items)
                  /\ next_page_token' = resp.token
                  /\ last_len' = Len(resp.items)
                  /\ pc' = SearchLoopPc(fetched', resp.token, max_results)
                  /\ UNCHANGED <<max_results, vids>>
  /\ UNCHANGED <<runVars, statsVars, df_videos, genreVars, df_with_genre, cleanVars>>

\* return list(dict.fromkeys(video_ids))
SearchReturn ==
  /\ pc = "search_ret"
  /\ vids' = SearchResult(video_ids)
  /\ pc' = "search_returned"
  /\ UNCHANGED <<max_results, video_ids, next_page_token, fetched, last_len>>
  /\ UNCHANGED <<http_failed, runVars, statsVars, df_videos, genreVars,
                 df_with_genre, cleanVars>>

\* ------------------------------------------------ youtube_get_videos_stats
\* `for i in range(0, len(video_ids), 50)`
StatsLoopPc(offset, ids) ==
  IF offset < Len(ids) THEN "stats_loop" ELSE "stats_ret"

\* One iteration: the chunk, the request, raise_for_status, one record per
\* returned item.
StatsChunk ==
  /\ pc = "stats_loop"
  /\ LET chunk == ChunkOf(stat_ids, i)
     IN \E resp \in DetailsResponses(chunk) :
          /\ requests' = Append(requests, chunk)
          /\ http_failed' = (http_failed \/ ~resp.ok)
          /\ IF Raises(resp)
             THEN /\ pc' = "failed"
                  /\ UNCHANGED <<stat_ids, i, records>>
             ELSE /\ records' = records \o [k \in DOMAIN resp.items |-> Record(resp.items[k])]
                  /\ i' = i + ChunkSize
                  /\ pc' = StatsLoopPc(i', stat_ids)
                  /\ UNCHANGED stat_ids
  /\ UNCHANGED <<runVars, searchVars, df_videos, genreVars, df_with_genre, cleanVars>>

\* return pd.DataFrame(records)
StatsReturn ==
  /\ pc = "stats_ret"
  /\ df_videos' = records
  /\ pc' = "stats_returned"
  /\ UNCHANGED <<http_failed, runVars, searchVars, statsVars, genreVars,
                 df_with_genre, cleanVars>>

\* ------------------------------------------------ add_primary_genre_column
\* `for _, row in df_videos.iterrows()`
GenreLoopPc(done, df) ==
  IF done < Len(df) THEN "genre_loop" ELSE "genre_ret"

\* One row: detect_genres_from_text, then the two appends.
GenreRow ==
  /\ pc = "genre_loop"
  /\ LET row == df_videos[Len(genres_all) + 1]
         parts == Parts(row.title, row.description, row.tags)
         found == FoundGenres(TextOf(row.title, row.description, row.tags))
     IN \E g_list \in (IF parts = <<>> THEN {<<>>} ELSE ListOfSet(found, hash_orders)) :
          /\ hash_orders' = (IF parts = <<>> THEN hash_orders
                             ELSE hash_orders \cup {g_list})
          /\ genres_all' = Append(genres_all, g_list)
          /\ primary' = Append(primary, IF g_list # <<>> THEN g_list[1] ELSE NoGenre)
          /\ pc' = GenreLoopPc(Len(genres_all'), df_videos)
  /\ UNCHANGED <<http_failed, runVars, searchVars, statsVars, df_videos,
                 df_with_genre, cleanVars>>

\* The copy with the columns genres_list and primary_genre.
GenreReturn ==
  /\ pc = "genre_ret"
  /\ df_with_genre' =
       [k \in DOMAIN df_videos |->
          [genres_list |-> genres_all[k], primary_genre |-> primary[k]] @@ df_videos[k]]
  /\ pc' = "genre_returned"
  /\ UNCHANGED <<http_failed, runVars, searchVars, statsVars, df_videos,
                 genreVars, cleanVars>>

\* ----------------------------------------------------- clean_for_modelling
Clean ==
  /\ pc = "clean"
  /\ df_clean' = CleanForModelling(df_with_genre, min_samples)
  /\ pc' = "clean_returned"
  /\ UNCHANGED <<http_failed, runVars, searchVars, statsVars, df_videos,
                 genreVars, df_with_genre, min_samples>>

\* ------------------------------------------------------------ run_pipeline
\* The values of the variables of a function that is not running.
RunIdle == qi = 1 /\ all_video_ids = <<>> /\ written = {} /\ http_failed = FALSE
SearchIdle ==
  /\ max_results = 0 /\ video_ids = <<>> /\ next_page_token = NoToken
  /\ fetched = 0 /\ last_len = 0 /\ vids = <<>>
StatsIdle == stat_ids = <<>> /\ i = 0 /\ records = <<>> /\ requests = <<>>
GenreIdle == genres_all = <<>> /\ primary = <<>> /\ hash_orders = {}
CleanIdle == min_samples = MinSamples /\ df_clean = <<>>

\* `while fetched < max_results` on entry to youtube_search.
SearchEntryPc(limit) ==
  IF 0 < limit THEN "search_loop" ELSE "search_ret"

\* `for q in QUERIES`: the call of youtube_search for QUERIES[qi].
Scrape ==
  /\ pc = "scrape"
  /\ qi <= NumQueries
  /\ qi \in DOMAIN QUERIES
  /\ max_results' = RunMaxResults
  /\ video_ids' = <<>>
  /\ next_page_token' = NoToken
  /\ fetched' = 0
  /\ last_len' = 0
  /\ pc' = SearchEntryPc(max_results')
  /\ UNCHANGED <<vids, http_failed, runVars, statsVars, df_videos, genreVars,
                 df_with_genre, cleanVars>>

\* all_video_ids.extend(vids), and the next query if there is one; the
\* locals of the call that returned are gone.
Extend ==
  /\ pc = "search_returned"
  /\ all_video_ids' = all_video_ids \o vids
  /\ qi' = qi + 1
  /\ pc' = IF qi < NumQueries THEN "scrape" ELSE "unique"
  /\ max_results' = 0 /\ video_ids' = <<>> /\ next_page_token' = NoToken
  /\ fetched' = 0 /\ last_len' = 0 /\ vids' = <<>>
  /\ UNCHANGED <<written, http_failed, statsVars, df_videos,
                 genreVars, df_with_genre, cleanVars>>

\* The dedup over all queries, the early return on an empty list, else the
\* call of youtube_get_videos_stats.
Unique ==
  /\ pc = "unique"
  /\ all_video_ids' = UniqueIds(all_video_ids)
  /\ IF NoVideos(all_video_ids')
     THEN /\ pc' = "done"
          /\ UNCHANGED statsVars
     ELSE /\ stat_ids' = all_video_ids'
          /\ i' = 0
          /\ records' = <<>>
          /\ requests' = <<>>
          /\ pc' = StatsLoopPc(0, stat_ids')
  /\ UNCHANGED <<qi, written, http_failed, searchVars, df_videos, genreVars,
                 df_with_genre, cleanVars>>

\* df_videos.to_csv(videos_raw.csv), then the call of
\* add_primary_genre_column.
SaveRaw ==
  /\ pc = "stats_returned"
  /\ written' = written \cup {"videos_raw.csv"}
  /\ genres_all' = <<>>
  /\ primary' = <<>>
  /\ pc' = GenreLoopPc(0, df_videos)
  /\ UNCHANGED <<qi, all_video_ids, hash_orders, http_failed, searchVars,
                 statsVars, df_videos, df_with_genre, cleanVars>>

\* df_with_genre.to_csv(videos_with_genre.csv), then the call of
\* clean_for_modelling with min_samples=20.
SaveWithGenre ==
  /\ pc = "genre_returned"
  /\ written' = written \cup {"videos_with_genre.csv"}
  /\ min_samples' = MinSamples
  /\ pc' = "clean"
  /\ UNCHANGED <<qi, all_video_ids, df_clean, http_failed, searchVars,
                 statsVars, df_videos, genreVars, df_with_genre>>

\* df_clean.to_csv(videos_preprocessed.csv); the run is over.
SavePreprocessed ==
  /\ pc = "clean_returned"
  /\ written' = written \cup {"videos_preprocessed.csv"}
  /\ pc' = "done"
  /\ UNCHANGED <<qi, all_video_ids, http_failed, searchVars, statsVars,
                 df_videos, genreVars, df_with_genre, cleanVars>>

\* --------------------------------------------------------- specifications
\* run_pipeline from its first line, the API key loaded by main.
Init ==
  /\ pc = "scrape"
  /\ RunIdle /\ SearchIdle /\ StatsIdle /\ GenreIdle /\ CleanIdle
  /\ df_videos = <<>> /\ df_with_genre = <<>>

Next ==
  \/ Scrape \/ SearchPage \/ SearchReturn \/ Extend \/ Unique
  \/ StatsChunk \/ StatsReturn \/ SaveRaw
  \/ GenreRow \/ GenreReturn \/ SaveWithGenre
  \/ Clean \/ SavePreprocessed

Spec == Init /\ [][Next]_vars

\* A call of youtube_search with any max_results.
InitSearch ==
  /\ max_results \in 0..MaxResults
  /\ pc = SearchEntryPc(max_results)
  /\ video_ids = <<>> /\ next_page_token = NoToken
  /\ fetched = 0 /\ last_len = 0 /\ vids = <<>>
  /\ RunIdle /\ StatsIdle /\ GenreIdle /\ CleanIdle
  /\ df_videos = <<>> /\ df_with_genre = <<>>

NextSearch == SearchPage \/ SearchReturn

SpecSearch == InitSearch /\ [][NextSearch]_vars

\* The interpreter runs the next statement of the call for as long as there
\* is one: the loop iteration while the loop is entered, then the return.
FairSearch == InitSearch /\ [][NextSearch]_vars /\ WF_vars(NextSearch)

\* A call of youtube_get_videos_stats with any identifier list.
InitStats ==
  /\ stat_ids \in UNION {[1..n -> Ids] : n \in 0..MaxStatIds}
  /\ i = 0 /\ records = <<>> /\ requests = <<>>
  /\ pc = StatsLoopPc(0, stat_ids)
  /\ RunIdle /\ SearchIdle /\ GenreIdle /\ CleanIdle
  /\ df_videos = <<>> /\ df_with_genre = <<>>

NextStats == StatsChunk \/ StatsReturn

SpecStats == InitStats /\ [][NextStats]_vars

\* The values a text field of a row takes.
TitleValues == {None, <<>>, <<"V","a","l","o"," ","M","L">>, <<"h","i">>}
DescriptionValues == {None, <<"e","a">>}
TagsValues == {<<>>, <<"f","c">>}

RowTexts ==
  [title : TitleValues, description : DescriptionValues, tags : TagsValues]

\* A call of add_primary_genre_column with any table of up to MaxRows rows.
InitGenre ==
  /\ \E t \in UNION {[1..n -> RowTexts] : n \in 0..MaxRows} :
       df_videos = [k \in DOMAIN t |-> [video_id |-> k] @@ t[k]]
  /\ pc = GenreLoopPc(0, df_videos)
  /\ RunIdle /\ SearchIdle /\ StatsIdle /\ GenreIdle /\ CleanIdle
  /\ df_with_genre = <<>>

NextGenre == GenreRow \/ GenreReturn

SpecGenre == InitGenre /\ [][NextGenre]_vars

\* The primary_genre values of the rows handed to clean_for_modelling.
CleanGenres == {NoGenre, "MOBA", "FPS"}

\* A call of clean_for_modelling with any tagged table and min_samples.
InitClean ==
  /\ \E t \in UNION {[1..n -> CleanGenres] : n \in 0..MaxCleanRows} :
       df_with_genre =
         [k \in DOMAIN t |->
            [video_id |-> k, title |-> <<"h","i">>, description |-> None,
             tags |-> <<>>,
             genres_list |-> IF t[k] = NoGenre THEN <<>> ELSE <<t[k]>>,
             primary_genre |-> t[k]]]
  /\ min_samples \in 0..MaxMinSamples
  /\ df_clean = <<>>
  /\ pc = "clean"
  /\ RunIdle /\ SearchIdle /\ StatsIdle /\ GenreIdle
  /\ df_videos = <<>>

SpecClean == InitClean /\ [][Clean]_vars

\* ------------------------------------------------- vocabulary of the claims
NoDup(s) == \A a, b \in DOMAIN s : s[a] = s[b] => a = b

FirstIndex(s, x) == CHOOSE k \in DOMAIN s : s[k] = x /\ \A j \in 1..(k - 1) : s[j] # x

\* The text fields of a row that are neither absent nor empty.
AbsentOrEmpty(v) == v = None \/ v = <<>>
GivenFields(row) ==
  LET given(v) == ~AbsentOrEmpty(v)
  IN SelectSeq(<<row.title, row.description, row.tags>>, given)

\* The lower-cased title+description+tags text of a row.
LoweredText(row) ==
  LET f == GivenFields(row)
      joined == IF Len(f) = 0 THEN <<>>
                ELSE IF Len(f) = 1 THEN f[1]
                ELSE IF Len(f) = 2 THEN f[1] \o <<" ">> \o f[2]
                ELSE f[1] \o <<" ">> \o f[2] \o <<" ">> \o f[3]
      low == [k \in DOMAIN joined |->
                IF joined[k] \in DOMAIN LowerOf THEN LowerOf[joined[k]] ELSE joined[k]]
  IN SubSeq(low, 1, Len(low))

\* kw is a substring of text.
Occurs(kw, text) ==
  \E a \in 1..Len(text) :
    a + Len(kw) - 1 <= Len(text) /\ SubSeq(text, a, a + Len(kw) - 1) = kw

\* Positions in GENRE_KEYWORDS of the genres with a keyword in the row's text.
MatchedGenres(row) ==
  LET text == LoweredText(row)
  IN {g \in DOMAIN GENRE_KEYWORDS :
        \E k \in DOMAIN GENRE_KEYWORDS[g].keywords :
          Occurs(GENRE_KEYWORDS[g].keywords[k], text)}

SetMin(S) == CHOOSE m \in S : \A n \in S : m <= n

\* The rows add_primary_genre_column has processed so far.
DoneRows == DOMAIN genres_all

\* C1: every list detect_genres_from_text returned is in GENRE_KEYWORDS
\* declaration order, and two rows with the same title, description and tags
\* got the same list.
C1_GenresInDeclarationOrder ==
  /\ \A r \in DoneRows :
       \A a, b \in DOMAIN genres_all[r] :
         a < b => GenreIndex(genres_all[r][a]) < GenreIndex(genres_all[r][b])
  /\ \A r, s \in DoneRows :
       (/\ df_videos[r].title = df_videos[s].title
        /\ df_videos[r].description = df_videos[s].description
        /\ df_videos[r].tags = df_videos[s].tags) => genres_all[r] = genres_all[s]

\* C2: primary_genre of every processed row is the earliest genre, in
\* declaration order, with a keyword in the row's lower-cased text, and None
\* when no genre matches.
C2_PrimaryIsEarliestGenre ==
  \A r \in DoneRows :
    LET m == MatchedGenres(df_videos[r])
    IN primary[r] = (IF m = {} THEN NoGenre ELSE Genres[SetMin(m)])

\* C3 as stated: the list returned for a row is empty if and only if title,
\* description and tags are all absent or empty.
C3_EmptyIffAllAbsent ==
  \A r \in DoneRows :
    (genres_all[r] = <<>>) <=>
      (/\ AbsentOrEmpty(df_videos[r].title)
       /\ AbsentOrEmpty(df_videos[r].description)
       /\ AbsentOrEmpty(df_videos[r].tags))

\* C3 as amended: the list returned for a row is empty if and only if no
\* keyword of any genre occurs in the row's lower-cased text; that is so
\* whenever title, description and tags are all absent or empty, and also
\* for a text without any keyword.
C3_EmptyIffNoKeyword ==
  \A r \in DoneRows :
    /\ (genres_all[r] = <<>>) <=> (MatchedGenres(df_videos[r]) = {})
    /\ (/\ AbsentOrEmpty(df_videos[r].title)
        /\ AbsentOrEmpty(df_videos[r].description)
        /\ AbsentOrEmpty(df_videos[r].tags)) => genres_all[r] = <<>>

\* A table whose first row has a text without keyword and got the empty
\* list, and whose second row has keywords in upper case and got genres.
C3_Witness ==
  /\ Len(genres_all) = 2
  /\ df_videos[1].title = <<"h","i">> /\ genres_all[1] = <<>>
  /\ df_videos[2].title = <<"V","a","l","o"," ","M","L">>
  /\ Len(genres_all[2]) >= 2

\* C4: the list youtube_search returns has no repeated identifier, lists the
\* identifiers of the pages in order of first occurrence, and is at most
\* max_results long (no page holds more items than were requested).
C4_SearchResultDeduplicated ==
  pc = "search_returned" =>
    /\ NoDup(vids)
    /\ Range(vids) = Range(video_ids)
    /\ \A a, b \in DOMAIN vids :
         a < b => FirstIndex(video_ids, vids[a]) < FirstIndex(video_ids, vids[b])
    /\ Len(vids) <= max_results

\* A call that took more than one page, saw an identifier twice and
\* returned two or more identifiers.
C4_Witness ==
  /\ pc = "search_returned"
  /\ fetched > SearchPageSize
  /\ ~NoDup(video_ids)
  /\ Len(vids) >= 2

\* C5: once a request got a non-success response the run is halted with
\* none of the three CSV files written, and nothing happens after it: no
\* further request, no retry, no write.
C5_HaltOnHttpFailure ==
  /\ [](http_failed => pc = "failed" /\ written = {})
  /\ [][http_failed => UNCHANGED vars]_vars

\* A details request that failed after an earlier chunk had been fetched.
C5_Witness ==
  /\ http_failed /\ pc = "failed"
  /\ Len(requests) >= 2 /\ records # <<>>
  /\ written = {}

\* Rows of the tagged table that have a primary_genre borne by at least
\* min_samples of the rows with a primary_genre.
KeptRows ==
  {k \in DOMAIN df_with_genre :
     /\ df_with_genre[k].primary_genre # NoGenre
     /\ Cardinality({j \in DOMAIN df_with_genre :
                       df_with_genre[j].primary_genre = df_with_genre[k].primary_genre})
          >= min_samples}

\* C6: the rows clean_for_modelling returns are exactly the rows of KeptRows,
\* in input order (video_id is the row's position in the input).
C6_CleanKeepsFrequentGenres ==
  pc = "clean_returned" =>
    /\ Len(df_clean) = Cardinality(KeptRows)
    /\ \A k \in DOMAIN df_clean :
         /\ df_clean[k].video_id \in KeptRows
         /\ df_clean[k].primary_genre = df_with_genre[df_clean[k].video_id].primary_genre
    /\ \A a, b \in DOMAIN df_clean : a < b => df_clean[a].video_id < df_clean[b].video_id

\* A table with a genre on exactly min_samples rows (kept), a genre on
\* min_samples - 1 rows (dropped) and a row without genre (dropped).
C6_Witness ==
  /\ pc = "clean_returned" /\ min_samples = 2
  /\ Cardinality({k \in DOMAIN df_with_genre : df_with_genre[k].primary_genre = "MOBA"}) = 2
  /\ Cardinality({k \in DOMAIN df_with_genre : df_with_genre[k].primary_genre = "FPS"}) = 1
  /\ \E k \in DOMAIN df_with_genre : df_with_genre[k].primary_genre = NoGenre
  /\ Len(df_clean) = 2

RECURSIVE Flatten(_)
Flatten(chunks) ==
  IF chunks = <<>> THEN <<>> ELSE Head(chunks) \o Flatten(Tail(chunks))

\* C7: when all requests of a call of youtube_get_videos_stats succeeded,
\* there were ceil(n / ChunkSize) of them, none with more than ChunkSize
\* identifiers, and their identifier lists concatenated are the input list.
C7_ChunkedRequests ==
  (pc \in {"stats_ret", "stats_returned"}) =>
    /\ Len(requests) = (Len(stat_ids) + ChunkSize - 1) \div ChunkSize
    /\ \A r \in DOMAIN requests : Len(requests[r]) <= ChunkSize
    /\ Flatten(requests) = stat_ids

\* A call with a list that needs three requests, the last one not full.
C7_Witness ==
  /\ pc = "stats_returned"
  /\ Len(requests) = 3
  /\ Len(requests[3]) < ChunkSize
  /\ Len(stat_ids) = 2 * ChunkSize + 1

\* C8: the identifier list handed to youtube_get_videos_stats has no
\* repeated identifier, and no two rows of the Video Record table have the
\* same video_id.
C8_UniqueVideoIds ==
  /\ NoDup(stat_ids)
  /\ NoDup([k \in DOMAIN records |-> records[k].video_id])
  /\ NoDup([k \in DOMAIN df_videos |-> df_videos[k].video_id])

\* A run whose fetch returned a table of two or more rows.
C8_Witness ==
  /\ pc = "stats_returned"
  /\ Len(df_videos) >= 2
  /\ Len(stat_ids) >= 2

\* C9: once the loop over the queries is over and the dedup has run, an
\* empty identifier list means the run has ended normally, with no details
\* request issued and no CSV file written.
C9_EmptyResultEndsRun ==
  (qi > NumQueries /\ pc # "unique" /\ all_video_ids = <<>>) =>
    /\ pc = "done"
    /\ ~http_failed
    /\ requests = <<>>
    /\ written = {}

\* A run all of whose searches succeeded and found nothing.
C9_Witness ==
  /\ pc = "done" /\ qi > NumQueries
  /\ all_video_ids = <<>> /\ ~http_failed /\ written = {}

SearchHalted == pc \in {"search_returned", "failed"}

\* C10 as stated: every call of youtube_search comes to an end.
C10_SearchTerminates == <>SearchHalted

\* The loop has just received a page without items that carries a token.
EmptyPageWithToken ==
  pc = "search_loop" /\ last_len = 0 /\ next_page_token # NoToken

\* C10 as amended: an iteration after which the loop goes on has received a
\* token, has left fetched below max_results, and has either received no
\* item or increased fetched; and the call comes to an end unless pages
\* without items that carry a token keep arriving.
C10_SearchStopsUnlessEmptyPages ==
  /\ [][(pc = "search_loop" /\ pc' = "search_loop") =>
          /\ next_page_token' # NoToken
          /\ fetched' < max_results
          /\ (last_len' = 0 \/ fetched' > fetched)]_vars
  /\ (<>SearchHalted \/ []<>EmptyPageWithToken)

\* A call that received an empty page with a token after a page with
\* items, and is still in the loop.
C10_Witness ==
  /\ EmptyPageWithToken
  /\ fetched > 0 /\ fetched < max_results
====
